---- MODULE Spec2Model ----
(***************************************************************************)
(* Telepresence session lifecycle (src/telepresence/main.py): the control  *)
(* thread of main()/go()/start_proxy()/connect(), the atexit teardown      *)
(* registry, the SIGTERM/SIGHUP shutdown handler, the helper process       *)
(* group, the remote-environment retry loop, and the pure functions        *)
(* _get_remote_env / get_env_variables / expose_local_services.            *)
(***************************************************************************)
EXTENDS Integers, Sequences, FiniteSets, TLC

\* ------------------------------------------------------------- bounds
\* Longest list of --expose port mappings drawn for a session.
MaxPorts == 2
\* Most SIGTERM/SIGHUP deliveries in one run.
MaxSignals == 2
\* Duration, in clock ticks, of a quick and of a slow remote-env attempt
\* (a foreground kubectl exec).
ShortAttempt == 3
LongAttempt == 13
\* Longest remote environment dump, in tokens.
MaxLen == 5

\* ---------------------------------------------------- program constants
\* Clock ticks per second: sleep(0.25) is one tick.
TicksPerSecond == 4
\* "while time() - start < 10"
RetryWindowSeconds == 10
RetryWindow == RetryWindowSeconds * TicksPerSecond
\* "sleep(0.25)" in ticks
SleepTicks == 1

None == "none"

VARIABLES
    args,        \* parsed command line: method, platform, mount, expose, tty
    pc,          \* position of the control thread
    handlers,    \* signals for which the shutdown handler is installed
    signals,     \* number of signals delivered so far
    registry,    \* atexit registry, in registration order
    exitIdx,     \* atexit callbacks still to be called (index into registry)
    running,     \* atexit callback now executing, or None
    invoked,     \* atexit callbacks invoked so far, in order
    completed,   \* atexit callbacks that ran to completion, in order
    exitCode,    \* process exit status, -1 while none is set
    cause,       \* what ended the main program: return, error, signal
    spawned,     \* helper processes started, in order
    pending,     \* handle returned by popen, not yet appended
    processes,   \* the Subprocesses group, in append order
    terminated,  \* helper processes terminated by the group, in order
    waited,      \* ssh.wait() has returned in this connect call
    alias,       \* the lo0 alias exists
    mountDir,    \* none / created / mounted / removed
    deployed,    \* what start_proxy did to the cluster: none / new / swap
    passed,      \* the checks of main() that have passed
    termFailed,  \* terminating some handle of the group failed
    elapsed,     \* ticks since "start = time()" of the retry loop
    env,         \* start_proxy's local "env": unbound / bound
    sshR,        \* argument list of the reverse-forward ssh invocation
    stderr,      \* messages expose_local_services printed
    exposeCalled,\* connect called expose_local_services
    socksPort,   \* connect's socks_port: none / allocated
    lastAttempt, \* how the latest remote-env attempt ended
    text,        \* remote environment dump (sequence of tokens)
    remote_env,  \* what _get_remote_env returned for text
    result       \* what get_env_variables returned for text

ctl == <<pc, exitCode, cause, exitIdx>>
sigv == <<handlers, signals>>
tear == <<running, invoked, completed, terminated, termFailed>>
procs == <<spawned, pending, processes>>
res == <<alias, mountDir, deployed>>
loopv == <<elapsed, env, lastAttempt>>
expo == <<sshR, stderr, exposeCalled, socksPort>>
envv == <<text, remote_env, result>>
vars == <<args, passed, ctl, sigv, registry, tear, procs, waited, res, loopv, expo,
          envv>>

Reverse(s) == [i \in 1..Len(s) |-> s[Len(s) + 1 - i]]

Range(s) == {s[i] : i \in 1..Len(s)}

RECURSIVE SeqsUpTo(_, _)
SeqsUpTo(S, n) ==
    IF n = 0 THEN {<<>>}
    ELSE LET shorter == SeqsUpTo(S, n - 1)
         IN shorter \cup {Append(s, x) : s \in {t \in shorter : Len(t) = n - 1},
                                        x \in S}

\* ------------------------------------------------------ configuration
Methods == {"container", "vpn-tcp", "inject-tcp"}
Platforms == {"linux", "darwin"}
\* args.mount: False, True (mkdtemp under /tmp) or a path
Mounts == {"false", "true", "path"}
\* (local port, remote port) pairs of args.expose.local_to_remote()
PortPairs == {<<8080, 80>>, <<9090, 8080>>}

\* The lists of up to MaxPorts distinct mappings.
PortLists ==
    {s \in SeqsUpTo(PortPairs, MaxPorts) :
        \A i, j \in 1..Len(s) : i # j => s[i] # s[j]}

\* kube_info.command
KubectlCmds == {"kubectl", "oc"}

Args ==
    [method : Methods, platform : Platforms, mount : Mounts,
     expose : PortLists, tty : BOOLEAN,
     kubectl : KubectlCmds, needs_root : {"unset"}]

\* ---------------------------------------- remote environment (pure part)
\* A dump is a sequence of tokens: "=" and "\n" are the two characters the
\* parser looks for, every other token is a run of characters holding neither.
Alphabet == {"HOME", "PATH", "HOSTNAME", "TELEPRESENCE_POD", "A", "=", "\n"}

\* The tokens that shape the parse, for longer dumps.
CoreAlphabet == {"A", "=", "\n"}

\* Every dump of MaxLen tokens, and every dump of two more tokens over the
\* core alphabet.
Texts == SeqsUpTo(Alphabet, MaxLen) \cup SeqsUpTo(CoreAlphabet, MaxLen + 2)

\* remote_info.pod_name, remote_info.container_name
PodName == <<"pod-1">>
ContainerName == <<"container-1">>

\* First position of token c in t, 0 when absent.
IndexOf(t, c) ==
    IF \E i \in 1..Len(t) : t[i] = c
    THEN CHOOSE i \in 1..Len(t) : t[i] = c /\ \A j \in 1..(i - 1) : t[j] # c
    ELSE 0

\* str.split("\n") in place of splitlines(): a final terminator opens an
\* empty last line.
RECURSIVE SplitOnNewline(_)
SplitOnNewline(t) ==
    LET n == IndexOf(t, "\n")
    IN IF n = 0 THEN <<t>>
       ELSE <<SubSeq(t, 1, n - 1)>> \o SplitOnNewline(SubSeq(t, n + 1, Len(t)))

\* str.splitlines(): a final line terminator opens no further line.
RECURSIVE SplitLines(_)
SplitLines(t) ==
    IF t = <<>> THEN <<>>
    ELSE LET n == IndexOf(t, "\n")
         IN IF n = 0 THEN <<t>>
            ELSE <<SubSeq(t, 1, n - 1)>> \o SplitLines(SubSeq(t, n + 1, Len(t)))

\* A dict is kept as its items in insertion order: <<key, value>> pairs.
DictHas(d, k) == \E i \in 1..Len(d) : d[i][1] = k

DictGet(d, k) == d[CHOOSE i \in 1..Len(d) : d[i][1] = k][2]

\* d[k] = v : an existing key keeps its place.
DictSet(d, k, v) ==
    IF DictHas(d, k)
    THEN [i \in 1..Len(d) |-> IF d[i][1] = k THEN <<k, v>> ELSE d[i]]
    ELSE Append(d, <<k, v>>)

\* del d[k]
DictDel(d, k) ==
    LET keep == {i \in 1..Len(d) : d[i][1] # k}
        F[i \in 0..Len(d)] ==
            IF i = 0 THEN <<>>
            ELSE IF i \in keep THEN Append(F[i - 1], d[i]) ELSE F[i - 1]
    IN F[Len(d)]

Keys(d) == {d[i][1] : i \in 1..Len(d)}

\* The loop with a continuation line replacing the value of the prior key
\* instead of being appended to it.
RECURSIVE ParseLoopOverwrite(_, _, _, _)
ParseLoopOverwrite(lines, i, result0, prior_key) ==
    IF i > Len(lines) THEN [ok |-> TRUE, map |-> result0]
    ELSE LET line == lines[i]
             n == IndexOf(line, "=")
         IN IF n # 0
            THEN LET key == SubSeq(line, 1, n - 1)
                     value == SubSeq(line, n + 1, Len(line))
                 IN ParseLoopOverwrite(lines, i + 1,
                                       DictSet(result0, key, value), <<key>>)
            ELSE IF prior_key = <<>>
                 THEN [ok |-> FALSE, map |-> <<>>]
                 ELSE ParseLoopOverwrite(lines, i + 1,
                                         DictSet(result0, prior_key[1], line),
                                         prior_key)

\* The "for line in env.splitlines()" loop from line i on. The result is
\* [ok, map]: ok is FALSE when "assert prior_key is not None" fails.
RECURSIVE ParseLoop(_, _, _, _)
ParseLoop(lines, i, result0, prior_key) ==
    IF i > Len(lines) THEN [ok |-> TRUE, map |-> result0]
    ELSE LET line == lines[i]
             n == IndexOf(line, "=")
         IN IF n # 0
            THEN LET key == SubSeq(line, 1, n - 1)
                     value == SubSeq(line, n + 1, Len(line))
                 IN ParseLoop(lines, i + 1, DictSet(result0, key, value),
                              <<key>>)
            ELSE IF prior_key = <<>>
                 THEN [ok |-> FALSE, map |-> <<>>]
                 ELSE LET key == prior_key[1]
                          value == DictGet(result0, key) \o <<"\n">> \o line
                      IN ParseLoop(lines, i + 1, DictSet(result0, key, value),
                                   prior_key)

\* _get_remote_env applied to the output of "kubectl exec ... env".
GetRemoteEnv(t) == ParseLoop(SplitLines(t), 1, <<>>, <<>>)

StripKeys == <<<<"HOME">>, <<"PATH">>, <<"HOSTNAME">>>>

\* for key in ("HOME", "PATH", "HOSTNAME"): if key in d: del d[key]
RECURSIVE DelKeys(_, _)
DelKeys(d, ks) ==
    IF ks = <<>> THEN d
    ELSE DelKeys(IF DictHas(d, Head(ks)) THEN DictDel(d, Head(ks)) ELSE d,
                 Tail(ks))

\* d.update(other)
RECURSIVE DictUpdate(_, _)
DictUpdate(d, other) ==
    IF other = <<>> THEN d
    ELSE DictUpdate(DictSet(d, Head(other)[1], Head(other)[2]), Tail(other))

\* get_env_variables with HOSTNAME left out of the keys it deletes.
EnvVariablesKeepHostname(parsed) ==
    IF ~parsed.ok THEN parsed
    ELSE [ok |-> TRUE,
          map |-> DictUpdate(<<<<<<"TELEPRESENCE_POD">>, PodName>>,
                               <<<<"TELEPRESENCE_CONTAINER">>, ContainerName>>>>,
                             DelKeys(parsed.map, <<<<"HOME">>, <<"PATH">>>>))]

\* get_env_variables, given what _get_remote_env returned.
EnvVariables(parsed) ==
    IF ~parsed.ok THEN parsed
    ELSE [ok |-> TRUE,
          map |-> DictUpdate(<<<<<<"TELEPRESENCE_POD">>, PodName>>,
                               <<<<"TELEPRESENCE_CONTAINER">>, ContainerName>>>>,
                             DelKeys(parsed.map, StripKeys))]

NoEnv == [ok |-> FALSE, map |-> <<>>]

\* ------------------------------------------------- expose_local_services
\* One ssh argument: the flag "-R", or the spec "*:remote:127.0.0.1:local".
FlagR == [kind |-> "-R", remote |-> 0, local |-> 0]

ForwardSpec(remote_port, local_port) ==
    [kind |-> "spec", remote |-> remote_port, local |-> local_port]

\* The loop over port_numbers left after its first mapping.
RemoteForwardArgumentsFirstOnly(port_numbers) ==
    IF port_numbers = <<>> THEN <<>>
    ELSE <<FlagR, ForwardSpec(Head(port_numbers)[2], Head(port_numbers)[1])>>

\* remote_forward_arguments after the loop over port_numbers
RECURSIVE RemoteForwardArguments(_)
RemoteForwardArguments(port_numbers) ==
    IF port_numbers = <<>> THEN <<>>
    ELSE <<FlagR, ForwardSpec(Head(port_numbers)[2], Head(port_numbers)[1])>>
         \o RemoteForwardArguments(Tail(port_numbers))

\* What is printed to stderr before ssh.popen: the advisory, or one
\* "Forwarding remote port" line per mapping; nothing when not a terminal.
ExposePrinted(port_numbers, output) ==
    IF ~output THEN <<>>
    ELSE IF port_numbers = <<>> THEN <<"advisory">>
    ELSE [i \in 1..Len(port_numbers) |-> "forwarding"]

\* ------------------------------------------------------ control thread
Live == pc \notin {"atexit", "exited", "killed"}

\* The control thread is at p, between statements.
At(p) == pc = p /\ pending = None

Goto(p) == pc' = p /\ UNCHANGED <<exitCode, cause, exitIdx>>

\* The main program ends (return, SystemExit, or an error turned into an exit
\* status): the interpreter starts running the atexit registry from its end.
Exit(code, why) ==
    /\ pc' = "atexit"
    /\ exitCode' = code
    /\ cause' = why
    /\ exitIdx' = Len(registry)

\* A step that raises and changes nothing else.
Fails ==
    /\ Exit(1, "error")
    /\ elapsed' = 0
    /\ UNCHANGED <<args, passed, sigv, registry, tear, procs, waited, res, env, lastAttempt, expo,
                   envv>>

\* A step that only moves on.
Passes(p) ==
    /\ Goto(p)
    /\ UNCHANGED <<args, passed, sigv, registry, tear, procs, waited, res, loopv, expo,
                   envv>>

\* atexit.register(f)
Register(f) == registry' = Append(registry, f)

\* runner.popen / ssh.popen of helper h as the argument of processes.append:
\* the child runs and its handle awaits the append, or the spawn fails.
Popen(h, next) ==
    \/ /\ spawned' = Append(spawned, h)
       /\ pending' = h
       /\ Goto(next)
       /\ UNCHANGED <<args, passed, sigv, registry, tear, processes, waited, res,
                      loopv, expo, envv>>
    \/ Fails

\* processes.append(handle)
ProcessesAppend ==
    /\ Live
    /\ pending # None
    /\ processes' = Append(processes, pending)
    /\ pending' = None
    /\ UNCHANGED <<args, passed, ctl, sigv, registry, tear, spawned, waited, res,
                   loopv, expo, envv>>


\* --------------------------------------------------------------- main()
Init ==
    /\ args \in Args
    /\ pc = "install_sigterm"
    /\ handlers = {}
    /\ signals = 0
    /\ registry = <<>>
    /\ exitIdx = 0
    /\ running = None
    /\ invoked = <<>>
    /\ completed = <<>>
    /\ exitCode = -1
    /\ cause = None
    /\ spawned = <<>>
    /\ pending = None
    /\ processes = <<>>
    /\ terminated = <<>>
    /\ waited = FALSE
    /\ alias = FALSE
    /\ mountDir = None
    /\ deployed = None
    /\ passed = {}
    /\ termFailed = FALSE
    /\ elapsed = 0
    /\ env = "unbound"
    /\ lastAttempt = None
    /\ sshR = <<>>
    /\ stderr = <<>>
    /\ exposeCalled = FALSE
    /\ socksPort = None
    /\ text = <<>>
    /\ remote_env = NoEnv
    /\ result = NoEnv

\* signal.signal(signal.SIGTERM, shutdown)
InstallSigterm ==
    /\ At("install_sigterm")
    /\ handlers' = handlers \cup {"SIGTERM"}
    /\ Goto("install_sighup")
    /\ UNCHANGED <<args, passed, signals, registry, tear, procs, waited, res, loopv,
                   expo, envv>>

\* signal.signal(signal.SIGHUP, shutdown)
InstallSighup ==
    /\ At("install_sighup")
    /\ handlers' = handlers \cup {"SIGHUP"}
    /\ Goto("analyze_kube")
    /\ UNCHANGED <<args, passed, signals, registry, tear, procs, waited, res, loopv,
                   expo, envv>>

\* kube_info = analyze_kube(args)
AnalyzeKube ==
    /\ At("analyze_kube")
    /\ \/ Passes("needs_root")
       \/ Fails

\* The local port of every mapping, taken for the remote one.
LocalPorts == {args.expose[i][1] : i \in 1..Len(args.expose)}

\* args.expose.remote(): the remote port of every mapping
RemotePorts == {args.expose[i][2] : i \in 1..Len(args.expose)}

\* "Figure out if we need capability that allows for ports < 1024"
NeedsRoot ==
    /\ At("needs_root")
    /\ IF \E p \in RemotePorts : p < 1024
       THEN IF args.kubectl = "oc"
            THEN Fails
            ELSE /\ args' = [args EXCEPT !.needs_root = "true"]
                 /\ Goto("runner")
                 /\ UNCHANGED <<passed, sigv, registry, tear, procs, waited,
                                res, loopv, expo, envv>>
       ELSE /\ args' = [args EXCEPT !.needs_root = "false"]
            /\ Goto("runner")
            /\ UNCHANGED <<passed, sigv, registry, tear, procs, waited, res,
                           loopv, expo, envv>>

\* call_scout; runner = Runner(...); span = runner.span();
\* atexit.register(span.end)
MainRunner ==
    /\ At("runner")
    /\ Register("span_end")
    /\ Goto("local_vm")
    /\ UNCHANGED <<args, passed, sigv, tear, procs, waited, res, loopv, expo, envv>>

\* check_if_in_local_vm and the vpn-tcp / --deployment refusal
CheckLocalVm ==
    /\ At("local_vm")
    /\ \/ Passes("check_kube")
       \/ /\ args.method = "vpn-tcp" \/ args.kubectl = "oc"
          /\ Fails

\* The checks in names are recorded as passed and main() moves on to p.
CheckPassed(names, p) ==
    /\ passed' = passed \cup names
    /\ Goto(p)
    /\ UNCHANGED <<args, sigv, registry, tear, procs, waited, res, loopv, expo,
                   envv>>

\* The checks in names are recorded as passed and the next one fails.
CheckFailed(names) ==
    /\ passed' = passed \cup names
    /\ Exit(1, "error")
    /\ UNCHANGED <<args, sigv, registry, tear, procs, waited, res, loopv, expo,
                   envv>>

\* "Make sure we can access Kubernetes"
CheckKube ==
    /\ At("check_kube")
    /\ \/ CheckPassed({"kube"}, "check_ssh")
       \/ CheckFailed({})

\* The ssh check letting main() go on whatever "ssh -V" did.
CheckSshUnchecked ==
    /\ At("check_ssh")
    /\ \/ CheckPassed({"ssh"}, "require")
       \/ CheckPassed({}, "require")

\* "Make sure we can run openssh"
CheckSsh ==
    /\ At("check_ssh")
    /\ \/ CheckPassed({"ssh"}, "require")
       \/ CheckFailed({})

\* The commands main() requires, in the order it asks for them.
RequiredCommands ==
    <<"torsocks">>
    \o (IF args.mount # "false" THEN <<"sshfs">> ELSE <<>>)
    \o (IF args.platform = "linux" /\ args.method = "vpn-tcp"
        THEN <<"conntrack">> ELSE <<>>)

\* require_command(runner, command) returns when the command is installed
\* and ends the run with an error message when it is missing.
RequireCommandOutcomes == {"found", "missing"}

\* require_command: torsocks, sshfs, conntrack, each ending the run when the
\* command is missing; then the reporter is set up and go() is entered
RequireCommands ==
    /\ At("require")
    /\ \E outcome \in [1..Len(RequiredCommands) -> RequireCommandOutcomes] :
         LET missing == {i \in DOMAIN outcome : outcome[i] = "missing"}
             k == IF missing = {} THEN Len(RequiredCommands)
                  ELSE (CHOOSE i \in missing : \A j \in missing : i <= j) - 1
             found == {RequiredCommands[i] : i \in 1..k}
         IN IF missing = {}
            THEN CheckPassed(found, "sp_deploy")
            ELSE CheckFailed(found)

\* ---------------------------------------------------------- start_proxy
\* args.new_deployment / args.swap_deployment / neither (--deployment)
Operations == {"deployment", "new", "swap"}

\* create_new_deployment / swap_deployment_openshift / supplant_deployment
StartProxyDeploy ==
    /\ At("sp_deploy")
    /\ \E op \in Operations :
         IF op = "deployment"
         THEN Passes("sp_remote_info")
         ELSE \/ /\ deployed' = op
                 /\ Goto("sp_remote_info")
                 /\ UNCHANGED <<args, passed, sigv, registry, tear, procs,
                                waited, alias, mountDir, loopv, expo, envv>>
              \/ Fails

\* remote_info = get_remote_info(...)
StartProxyRemoteInfo ==
    /\ At("sp_remote_info")
    /\ \/ Passes("c_subprocesses")
       \/ Fails

\* -------------------------------------------------------------- connect
\* Subprocesses.__init__ registers the group's termination for exit.
SubprocessesInit == Register("killall")

\* processes = Subprocesses()
ConnectSubprocesses ==
    /\ At("c_subprocesses")
    /\ SubprocessesInit
    /\ Goto("c_logs")
    /\ UNCHANGED <<args, passed, sigv, tear, procs, waited, res, loopv, expo, envv>>

\* processes.append(runner.popen(kubectl logs -f ...))
ConnectLogs ==
    /\ At("c_logs")
    /\ Popen("logs", "c_portforward")

\* connect taking the bridge setup whatever the method is.
AfterPortForwardAlwaysBridge ==
    IF args.platform = "linux" THEN "c_iface" ELSE "c_alias_add"

\* Where connect goes after the port-forward: the bridge setup of the
\* container method, or straight to ssh.wait().
AfterPortForward ==
    IF args.method = "container"
    THEN IF args.platform = "linux" THEN "c_iface" ELSE "c_alias_add"
    ELSE "c_wait"

\* connect without the port-forward at this place.
ConnectPortForwardMissing ==
    /\ At("c_portforward")
    /\ Passes(AfterPortForward)

\* ssh = SSH(runner, find_free_port());
\* processes.append(runner.popen(kubectl port-forward ...))
ConnectPortForward ==
    /\ At("c_portforward")
    /\ Popen("port-forward", AfterPortForward)

\* The bridge discovery ending the run with exit status 0.
ConnectIfaceNotFatal ==
    /\ At("c_iface")
    /\ \/ Passes("c_socat")
       \/ /\ Exit(0, "error")
          /\ UNCHANGED <<args, passed, sigv, registry, tear, procs, waited,
                         res, loopv, expo, envv>>

\* Linux: find the docker0 address with ip or ifconfig, or raise SystemExit
ConnectIface ==
    /\ At("c_iface")
    /\ \/ Passes("c_socat")
       \/ Fails

\* runner.check_call(["sudo", "ifconfig", "lo0", "alias", MAC_LOOPBACK_IP])
ConnectAliasAdd ==
    /\ At("c_alias_add")
    /\ \/ /\ alias' = TRUE
          /\ Goto("c_alias_reg")
          /\ UNCHANGED <<args, passed, sigv, registry, tear, procs, waited,
                         mountDir, deployed, loopv, expo, envv>>
       \/ Fails

\* The alias removal registered ahead of the process group's termination,
\* as when the group were created after the bridge setup.
ConnectAliasRegisterBeforeGroup ==
    /\ At("c_alias_reg")
    /\ registry' = SubSeq(registry, 1, Len(registry) - 1)
                     \o <<"alias_remove", registry[Len(registry)]>>
    /\ Goto("c_socat")
    /\ UNCHANGED <<args, passed, sigv, tear, procs, waited, res, loopv, expo, envv>>

\* atexit.register(runner.check_call, [... "-alias", MAC_LOOPBACK_IP])
ConnectAliasRegister ==
    /\ At("c_alias_reg")
    /\ Register("alias_remove")
    /\ Goto("c_socat")
    /\ UNCHANGED <<args, passed, sigv, tear, procs, waited, res, loopv, expo, envv>>

\* processes.append(runner.popen(["socat", ...]))
ConnectSocat ==
    /\ At("c_socat")
    /\ Popen("socat", "c_wait")

\* SSH.wait returns once the ssh server answers, or raises after its timeout.
SshWaitOutcomes == {"ready", "timeout"}

\* connect going on when ssh.wait() did not succeed.
ConnectWaitIgnored ==
    /\ At("c_wait")
    /\ \E outcome \in SshWaitOutcomes :
         /\ waited' = (outcome = "ready")
         /\ Goto("c_expose")
         /\ UNCHANGED <<args, passed, sigv, registry, tear, procs, res, loopv, expo,
                        envv>>

\* ssh.wait()
ConnectWait ==
    /\ At("c_wait")
    /\ \E outcome \in SshWaitOutcomes :
         IF outcome = "ready"
         THEN /\ waited' = TRUE
              /\ Goto("c_expose")
              /\ UNCHANGED <<args, passed, sigv, registry, tear, procs, res, loopv,
                             expo, envv>>
         ELSE Fails

\* expose_local_services(processes, ssh, port_numbers)
ExposeLocalServices(port_numbers, next) ==
    LET output == args.tty
        remote_forward_arguments == RemoteForwardArguments(port_numbers)
        printed == ExposePrinted(port_numbers, output)
    IN IF remote_forward_arguments # <<>>
       THEN \/ /\ spawned' = Append(spawned, "ssh-R")
               /\ pending' = "ssh-R"
               /\ sshR' = remote_forward_arguments
               /\ stderr' = IF output THEN Append(printed, "blank") ELSE printed
               /\ exposeCalled' = TRUE
               /\ Goto(next)
               /\ UNCHANGED <<args, passed, sigv, registry, tear, processes,
                              waited, res, loopv, socksPort, envv>>
            \/ /\ Exit(1, "error")
               /\ stderr' = printed
               /\ exposeCalled' = TRUE
               /\ UNCHANGED <<args, passed, sigv, registry, tear, procs,
                              waited, res, loopv, sshR, socksPort, envv>>
       ELSE /\ stderr' = IF output THEN Append(printed, "blank") ELSE printed
            /\ exposeCalled' = TRUE
            /\ Goto(next)
            /\ UNCHANGED <<args, passed, sigv, registry, tear, procs, waited,
                           res, loopv, sshR, socksPort, envv>>

\* if cmdline_args.method != "container": expose_local_services(...)
ConnectExpose ==
    /\ At("c_expose")
    /\ IF args.method # "container"
       THEN ExposeLocalServices(args.expose, "c_socks")
       ELSE Passes("c_socks")

\* socks_port = find_free_port(); inject-tcp: processes.append(ssh.popen(-L))
ConnectSocks ==
    /\ At("c_socks")
    /\ IF args.method = "inject-tcp"
       THEN \/ /\ socksPort' = "allocated"
               /\ spawned' = Append(spawned, "ssh-L")
               /\ pending' = "ssh-L"
               /\ Goto("sp_start")
               /\ UNCHANGED <<args, passed, sigv, registry, tear, processes,
                              waited, res, loopv, sshR, stderr, exposeCalled,
                              envv>>
            \/ Fails
       ELSE /\ socksPort' = "allocated"
            /\ Goto("sp_start")
            /\ UNCHANGED <<args, passed, sigv, registry, tear, procs, waited,
                           res, loopv, sshR, stderr, exposeCalled, envv>>

\* ------------------------------------------- start_proxy: the retry loop
\* How long one get_env_variables attempt (a foreground kubectl exec) takes.
AttemptTicks == {ShortAttempt, LongAttempt}

\* start = time()
StartProxyStart ==
    /\ At("sp_start")
    /\ elapsed' = 0
    /\ Goto("sp_loop")
    /\ UNCHANGED <<args, passed, sigv, registry, tear, procs, waited, res, env, lastAttempt, expo,
                   envv>>

\* time() - start <= 10
WindowOpenInclusive(t) == t <= RetryWindow

\* time() - start < 10
WindowOpen(t) == t < RetryWindow

\* while time() - start < 10:
StartProxyLoop ==
    /\ At("sp_loop")
    /\ Passes(IF WindowOpen(elapsed) THEN "sp_attempt" ELSE "sp_return")

\* try: env = get_env_variables(...); break / except CalledProcessError
AttemptOutcomes == {"ok", "CalledProcessError", "other"}

\* The loop with "except Exception" in place of "except CalledProcessError".
StartProxyAttemptRetriesAll ==
    /\ At("sp_attempt")
    /\ \E d \in AttemptTicks, outcome \in AttemptOutcomes :
         /\ lastAttempt' = outcome
         /\ elapsed' = elapsed + d
         /\ env' = IF outcome = "ok" THEN "bound" ELSE env
         /\ Goto(IF outcome = "ok" THEN "sp_return" ELSE "sp_sleep")
         /\ UNCHANGED <<args, passed, sigv, registry, tear, procs, waited,
                        res, expo, envv>>

\* try: env = get_env_variables(...); break / except CalledProcessError
StartProxyAttempt ==
    /\ At("sp_attempt")
    /\ \E d \in AttemptTicks, outcome \in AttemptOutcomes :
         /\ lastAttempt' = outcome
         /\ IF outcome = "ok"
            THEN /\ elapsed' = elapsed + d
                 /\ env' = "bound"
                 /\ Goto("sp_return")
            ELSE IF outcome = "CalledProcessError"
            THEN /\ elapsed' = elapsed + d
                 /\ env' = env
                 /\ Goto("sp_sleep")
            ELSE /\ elapsed' = 0
                 /\ env' = env
                 /\ Exit(1, "error")
         /\ UNCHANGED <<args, passed, sigv, registry, tear, procs, waited,
                        res, expo, envv>>

\* sleep(0.25)
StartProxySleep ==
    /\ At("sp_sleep")
    /\ elapsed' = elapsed + SleepTicks
    /\ Goto("sp_loop")
    /\ UNCHANGED <<args, passed, sigv, registry, tear, procs, waited, res, env, lastAttempt, expo,
                   envv>>

\* span.end(); return processes, env, socks_port, ssh, remote_info
\* Reading the local "env" when no attempt bound it raises
\* UnboundLocalError.
StartProxyReturn ==
    /\ At("sp_return")
    /\ IF env = "bound"
       THEN /\ elapsed' = 0
            /\ Goto("go_mount")
            /\ UNCHANGED <<args, passed, sigv, registry, tear, procs, waited, res,
                           env, lastAttempt, expo, envv>>
       ELSE Fails

\* ----------------------------------------------------------------- go()
\* if args.mount: mkdtemp(dir="/tmp") or args.mount.mkdir(...)
GoMount ==
    /\ At("go_mount")
    /\ IF args.mount = "false"
       THEN Passes("go_run")
       ELSE \/ /\ mountDir' = "created"
               /\ Goto("go_mount_volumes")
               /\ UNCHANGED <<args, passed, sigv, registry, tear, procs, waited,
                              alias, deployed, loopv, expo, envv>>
            \/ Fails

\* mount_remote_volumes mounts the remote volumes on the directory and
\* returns the cleanup that unmounts and removes it; when the mount fails it
\* either raises or returns a cleanup that does nothing ("removed by
\* mount_cleanup if mount succeeds, leaked if mount fails").
MountOutcomes == {"mounted", "failed", "raised"}

\* mount_dir, mount_cleanup = mount_remote_volumes(...)
GoMountVolumes ==
    /\ At("go_mount_volumes")
    /\ \E outcome \in MountOutcomes :
         IF outcome = "raised"
         THEN Fails
         ELSE /\ mountDir' = IF outcome = "mounted" THEN "mounted" ELSE mountDir
              /\ Goto("go_mount_reg")
              /\ UNCHANGED <<args, passed, sigv, registry, tear, procs,
                             waited, alias, deployed, loopv, expo, envv>>

\* atexit.register(mount_cleanup)
GoMountRegister ==
    /\ At("go_mount_reg")
    /\ Register("mount_cleanup")
    /\ Goto("go_run")
    /\ UNCHANGED <<args, passed, sigv, tear, procs, waited, res, loopv, expo, envv>>

\* run_docker_command / run_local_command, then go() and main() return
GoRun ==
    /\ At("go_run")
    /\ \/ /\ Exit(0, "return")
          /\ UNCHANGED <<args, passed, sigv, registry, tear, procs, waited, res,
                         loopv, expo, envv>>
       \/ Fails

\* ------------------------------------------------------------- teardown
\* The group calling terminate in the order the handles were appended.
TerminateInAppendOrder(handles) == handles

\* The order in which the group calls terminate on its handles.
TerminateOrder(handles) == Reverse(handles)

\* Subprocesses.killall: terminate is called on every handle of the group;
\* an error of one call is swallowed and the remaining handles still follow.
KillAll ==
    /\ terminated' = TerminateOrder(processes)
    /\ \E failure \in BOOLEAN :
         termFailed' = (failure /\ processes # <<>>)

\* What a teardown action does when it runs to its end.
CallbackEffect(f) ==
    /\ IF f = "killall" THEN KillAll ELSE UNCHANGED <<terminated, termFailed>>
    /\ alias' = IF f = "alias_remove" THEN FALSE ELSE alias
    /\ mountDir' = IF f = "mount_cleanup" /\ mountDir = "mounted"
                   THEN "removed" ELSE mountDir
    /\ deployed' = deployed

\* The registered function the interpreter calls next at exit.
NextExitFunc == registry[exitIdx]

\* interpreter exit: call the next registered function, last registered first
AtexitCall ==
    /\ pc = "atexit"
    /\ running = None
    /\ exitIdx > 0
    /\ running' = NextExitFunc
    /\ invoked' = Append(invoked, NextExitFunc)
    /\ exitIdx' = exitIdx - 1
    /\ UNCHANGED <<args, passed, pc, exitCode, cause, sigv, registry,
                   completed, terminated, termFailed, procs, waited, res,
                   loopv, expo, envv>>

\* the function called at exit returns
AtexitReturn ==
    /\ pc = "atexit"
    /\ running # None
    /\ CallbackEffect(running)
    /\ completed' = Append(completed, running)
    /\ running' = None
    /\ UNCHANGED <<args, passed, ctl, sigv, registry, invoked, procs, waited, loopv,
                   expo, envv>>

\* every registered function was called: the process ends
AtexitDone ==
    /\ pc = "atexit"
    /\ running = None
    /\ exitIdx = 0
    /\ pc' = "exited"
    /\ UNCHANGED <<args, passed, exitCode, cause, exitIdx, sigv, registry, tear,
                   procs, waited, res, loopv, expo, envv>>

\* -------------------------------------------------------------- signals
\* A handler that ends the process at once (os._exit) instead of raising.
ShutdownHardExit ==
    /\ pc' = "killed"
    /\ pending' = None
    /\ UNCHANGED <<args, passed, exitCode, cause, exitIdx, handlers, registry, tear,
                   spawned, processes, waited, res, loopv, expo, envv>>

\* def shutdown(signum, frame): raise SystemExit(0)
\* Raised in the main program it ends it; raised inside a function called at
\* exit it ends that function only.
Shutdown ==
    IF pc # "atexit"
    THEN /\ Exit(0, "signal")
         /\ pending' = None
         /\ elapsed' = 0
         /\ UNCHANGED <<args, passed, handlers, registry, tear, spawned, processes,
                        waited, res, env, lastAttempt, expo, envv>>
    ELSE /\ running # None
         /\ running' = None
         /\ UNCHANGED <<args, passed, ctl, handlers, registry, invoked,
                        completed, terminated, termFailed, procs, waited, res,
                        loopv, expo, envv>>

\* The default disposition of SIGTERM and SIGHUP: the process ends at once.
DefaultDisposition ==
    /\ pc' = "killed"
    /\ pending' = None
    /\ UNCHANGED <<args, passed, exitCode, cause, exitIdx, handlers, registry, tear,
                   spawned, processes, waited, res, loopv, expo, envv>>

\* SIGTERM or SIGHUP is delivered to the process.
Signal(sig) ==
    /\ pc \notin {"exited", "killed"}
    /\ signals < MaxSignals
    /\ signals' = signals + 1
    /\ IF sig \in handlers THEN Shutdown ELSE DefaultDisposition

Next ==
    \/ InstallSigterm
    \/ InstallSighup
    \/ AnalyzeKube
    \/ NeedsRoot
    \/ MainRunner
    \/ CheckLocalVm
    \/ CheckKube
    \/ CheckSsh
    \/ RequireCommands
    \/ StartProxyDeploy
    \/ StartProxyRemoteInfo
    \/ ConnectSubprocesses
    \/ ConnectLogs
    \/ ConnectPortForward
    \/ ConnectIface
    \/ ConnectAliasAdd
    \/ ConnectAliasRegister
    \/ ConnectSocat
    \/ ConnectWait
    \/ ConnectExpose
    \/ ConnectSocks
    \/ ProcessesAppend
    \/ StartProxyStart
    \/ StartProxyLoop
    \/ StartProxyAttempt
    \/ StartProxySleep
    \/ StartProxyReturn
    \/ GoMount
    \/ GoMountVolumes
    \/ GoMountRegister
    \/ GoRun
    \/ AtexitCall
    \/ AtexitReturn
    \/ AtexitDone
    \/ \E sig \in {"SIGTERM", "SIGHUP"} : Signal(sig)

Spec == Init /\ [][Next]_vars

\* ------------------------------- get_env_variables on every bounded dump
\* What the remote "env" command prints for an environment: one KEY=value
\* line per variable, each ended by a newline; a newline inside a value
\* makes the rest of the value the following lines.
RECURSIVE EnvText(_)
EnvText(d) ==
    IF d = <<>> THEN <<>>
    ELSE Head(d)[1] \o <<"=">> \o Head(d)[2] \o <<"\n">> \o EnvText(Tail(d))

\* The session variables are not used while get_env_variables is exercised.
InitEnv ==
    /\ text \in Texts
    /\ remote_env = NoEnv
    /\ result = NoEnv
    /\ pc = "env_input"
    /\ args = [method |-> "vpn-tcp", platform |-> "linux", mount |-> "false",
               expose |-> <<>>, tty |-> FALSE, kubectl |-> "kubectl",
               needs_root |-> "unset"]
    /\ handlers = {}
    /\ signals = 0
    /\ registry = <<>>
    /\ exitIdx = 0
    /\ running = None
    /\ invoked = <<>>
    /\ completed = <<>>
    /\ exitCode = -1
    /\ cause = None
    /\ spawned = <<>>
    /\ pending = None
    /\ processes = <<>>
    /\ terminated = <<>>
    /\ waited = FALSE
    /\ alias = FALSE
    /\ mountDir = None
    /\ deployed = None
    /\ passed = {}
    /\ termFailed = FALSE
    /\ elapsed = 0
    /\ env = "unbound"
    /\ lastAttempt = None
    /\ sshR = <<>>
    /\ stderr = <<>>
    /\ exposeCalled = FALSE
    /\ socksPort = None

\* get_env_variables(runner, remote_info, context) when kubectl exec prints
\* text: remote_env is what _get_remote_env returns, result what
\* get_env_variables returns (neither when the assertion fails).
GetEnvVariables ==
    /\ pc = "env_input"
    /\ remote_env' = GetRemoteEnv(text)
    /\ result' = EnvVariables(remote_env')
    /\ pc' = "env_done"
    /\ UNCHANGED <<args, passed, exitCode, cause, exitIdx, sigv, registry, tear,
                   procs, waited, res, loopv, expo, text>>

NextEnv == GetEnvVariables

SpecEnv == InitEnv /\ [][NextEnv]_vars

\* ================================================================ claims
\* ---- the remote environment parser, stated without the parser's loop
HasEq(line) == \E i \in 1..Len(line) : line[i] = "="

FirstEq(line) ==
    CHOOSE i \in 1..Len(line) :
        line[i] = "=" /\ \A j \in 1..(i - 1) : line[j] # "="

KeyPart(line) == SubSeq(line, 1, FirstEq(line) - 1)

ValuePart(line) == SubSeq(line, FirstEq(line) + 1, Len(line))

\* v followed by lines a..b of ls, each preceded by a newline
RECURSIVE JoinContinuations(_, _, _, _)
JoinContinuations(v, ls, a, b) ==
    IF a > b THEN v
    ELSE JoinContinuations(v \o <<"\n">> \o ls[a], ls, a + 1, b)

Max(S) == CHOOSE x \in S : \A y \in S : y <= x

Min(S) == CHOOSE x \in S : \A y \in S : x <= y

\* m is the mapping the lines ls describe: its keys are the key parts of
\* the lines holding "=", and the value of a key is the value part of the
\* last line that starts it, followed by the lines without "=" after it.
Describes(ls, m) ==
    LET eq == {i \in 1..Len(ls) : HasEq(ls[i])}
    IN /\ Len(m) = Cardinality(Keys(m))
       /\ Keys(m) = {KeyPart(ls[i]) : i \in eq}
       /\ \A k \in Keys(m) :
            LET last == Max({i \in eq : KeyPart(ls[i]) = k})
                stop == Min({j \in eq : j > last} \cup {Len(ls) + 1})
            IN DictGet(m, k)
                 = JoinContinuations(ValuePart(ls[last]), ls, last + 1, stop - 1)

\* The dump A=1, B=2, C=line1, continued, D=4 and its mapping.
ExampleText ==
    <<"A", "=", "1", "\n", "B", "=", "2", "\n", "C", "=", "line1", "\n",
      "continued", "\n", "D", "=", "4">>

ExampleMap ==
    <<<<<<"A">>, <<"1">>>>, <<<<"B">>, <<"2">>>>,
      <<<<"C">>, <<"line1", "\n", "continued">>>>, <<<<"D">>, <<"4">>>>>>

\* C7 as stated: for every dump, also one whose first line has no "=",
\* _get_remote_env returns the mapping its lines describe.
C7_ParsesEveryInput ==
    pc = "env_done" =>
        remote_env.ok /\ Describes(SplitLines(text), remote_env.map)

\* C7 amended: for every dump that is empty or whose first line holds "=",
\* _get_remote_env returns the mapping its lines describe (each line with
\* "=" starts a key, split at the first "="; each line without is appended
\* after a newline to the most recently seen key); for a dump whose first
\* line has no "=" the assertion fails and nothing is returned. The example
\* dump parses to the example mapping.
C7_ParsesWellFormedInput ==
    /\ GetRemoteEnv(ExampleText) = [ok |-> TRUE, map |-> ExampleMap]
    /\ pc = "env_done" =>
         LET ls == SplitLines(text)
         IN IF ls = <<>> \/ HasEq(ls[1])
            THEN remote_env.ok /\ Describes(ls, remote_env.map)
            ELSE ~remote_env.ok

\* C7 witness: a dump was parsed in which a line without "=" continued the
\* value of a key that is not the first one.
C7_ContinuationParsed ==
    /\ pc = "env_done"
    /\ remote_env.ok
    /\ Len(remote_env.map) = 2
    /\ "\n" \in Range(remote_env.map[2][2])

\* C8: writing a mapping returned by _get_remote_env back as text and
\* parsing that text yields the same mapping.
C8_ReparseIsIdentity ==
    (pc = "env_done" /\ remote_env.ok) =>
        GetRemoteEnv(EnvText(remote_env.map)) = remote_env

\* C8 witness: a returned mapping has a value that ends in a newline (the
\* dump ended with an empty continuation line).
C8_ValueEndsInNewline ==
    /\ pc = "env_done"
    /\ remote_env.ok
    /\ \E i \in 1..Len(remote_env.map) :
         LET v == remote_env.map[i][2]
         IN v # <<>> /\ v[Len(v)] = "\n"

\* C9: the mapping get_env_variables returns has none of HOME, PATH,
\* HOSTNAME, has TELEPRESENCE_POD and TELEPRESENCE_CONTAINER, and has every
\* other key of the remote dump with its remote value.
C9_SessionEnvironment ==
    (pc = "env_done" /\ result.ok) =>
        /\ Keys(result.map) \cap {<<"HOME">>, <<"PATH">>, <<"HOSTNAME">>} = {}
        /\ <<"TELEPRESENCE_POD">> \in Keys(result.map)
        /\ <<"TELEPRESENCE_CONTAINER">> \in Keys(result.map)
        /\ \A k \in Keys(remote_env.map)
                      \ {<<"HOME">>, <<"PATH">>, <<"HOSTNAME">>} :
             /\ k \in Keys(result.map)
             /\ DictGet(result.map, k) = DictGet(remote_env.map, k)

\* C9 witness: the dump defined HOSTNAME and another variable, and
\* get_env_variables returned.
C9_DumpWithHostname ==
    /\ pc = "env_done"
    /\ result.ok
    /\ <<"HOSTNAME">> \in Keys(remote_env.map)
    /\ <<"A">> \in Keys(remote_env.map)

\* ---- the session
IsPrefix(s, t) == Len(s) <= Len(t) /\ \A i \in 1..Len(s) : s[i] = t[i]

Ended == pc \in {"exited", "killed"}

\* C1: when the process has ended, every registered teardown action has
\* been invoked exactly once, in reverse order of registration, whatever
\* ended the main program (return, error, SIGTERM/SIGHUP after the handlers
\* were installed); while teardown runs the actions invoked so far are the
\* last registered ones, last first; and the registry only grows by
\* appending, and only before teardown starts.
C1_TeardownOnceInReverse ==
    /\ [](Ended => invoked = Reverse(registry))
    /\ [](pc = "atexit" =>
            /\ exitIdx = Len(registry) - Len(invoked)
            /\ IsPrefix(invoked, Reverse(registry)))
    /\ [][\/ registry' = registry
          \/ Live /\ \E f \in {"span_end", "killall", "alias_remove",
                               "mount_cleanup"} :
                        registry' = Append(registry, f)]_vars

\* C1 witness: a signal ended a session that had registered all four
\* teardown actions, and the process has ended.
C1_SignalledWithFullRegistry ==
    /\ pc = "exited"
    /\ cause = "signal"
    /\ Len(registry) = 4

TeardownRank(f) ==
    CASE f = "mount_cleanup" -> 1
      [] f = "alias_remove" -> 2
      [] f = "killall" -> 3
      [] f = "span_end" -> 4

\* C2: teardown invokes mount cleanup before loopback alias removal before
\* process-group termination before span closure; a session that has all
\* four runs exactly these four in that order.
C2_TeardownOrder ==
    /\ \A i, j \in 1..Len(invoked) :
         i < j => TeardownRank(invoked[i]) < TeardownRank(invoked[j])
    /\ (pc = "exited" /\ Len(registry) = 4) =>
         invoked = <<"mount_cleanup", "alias_remove", "killall", "span_end">>

\* C2 witness: go() returned normally in a session with a mount and an
\* alias, and all four teardown actions ran.
C2_AllFourRan ==
    /\ pc = "exited"
    /\ cause = "return"
    /\ Len(completed) = 4

HelperRank(h) ==
    CASE h = "logs" -> 1
      [] h = "port-forward" -> 2
      [] h = "socat" -> 3
      [] h = "ssh-R" -> 4
      [] h = "ssh-L" -> 5

\* C3: helpers are started in the order log tail, port-forward, bridge relay
\* (container method only), reverse-forward ssh, SOCKS forward ssh
\* (inject-tcp only); a later helper is started only after the log tail and
\* the port-forward; the group holds the helpers in the order they were
\* started; and at most one started helper awaits its append (no two steps
\* overlap).
C3_HelperStartOrder ==
    /\ \A i, j \in 1..Len(spawned) :
         i < j => HelperRank(spawned[i]) < HelperRank(spawned[j])
    /\ \A i \in 1..Len(spawned) : HelperRank(spawned[i]) = i \/ i > 2
    /\ "socat" \in Range(spawned) => args.method = "container"
    /\ "ssh-R" \in Range(spawned) => args.method # "container"
    /\ "ssh-L" \in Range(spawned) => args.method = "inject-tcp"
    /\ IsPrefix(processes, spawned)
    /\ pending # None => spawned = Append(processes, pending)
    /\ (pending = None /\ Live) => processes = spawned

\* C3 witness: connect appended four helpers (log tail, port-forward,
\* reverse forward, SOCKS forward).
C3_FourHelpers == Len(processes) = 4

\* C4: an ssh forwarding invocation exists only if ssh.wait() returned in
\* this connect call, and the control thread gets past ssh.wait() only if it
\* returned: after a timeout connect is left and no forward is attempted.
C4_ForwardOnlyAfterWait ==
    /\ ("ssh-R" \in Range(spawned) \/ "ssh-L" \in Range(spawned)) => waited
    /\ ~waited =>
         pc \in {"install_sigterm", "install_sighup", "analyze_kube",
                 "needs_root", "runner", "local_vm", "check_kube",
                 "check_ssh", "require", "sp_deploy", "sp_remote_info",
                 "c_subprocesses", "c_logs", "c_portforward", "c_iface",
                 "c_alias_add", "c_alias_reg", "c_socat", "c_wait",
                 "atexit", "exited", "killed"}

\* C4 witness: both ssh forwards were spawned.
C4_BothForwardsSpawned ==
    "ssh-R" \in Range(spawned) /\ "ssh-L" \in Range(spawned)

\* C5: when the retry loop ends without any attempt having succeeded,
\* start_proxy returns and go() goes on to the mount step.
C5_TimeoutIsNotFatal ==
    [][(pc = "sp_return" /\ env = "unbound" /\ signals' = signals)
         => pc' = "go_mount"]_vars

\* C6 as stated: the retry loop is over within 10 seconds of its start.
C6_LoopEndsWithinWindow ==
    pc = "sp_return" => elapsed <= RetryWindow

\* C6 amended: no attempt starts 10 seconds or more after the loop's start;
\* the loop gives up only once 10 seconds have passed; and it is over within
\* 10 seconds plus the duration of the attempt then in progress and its
\* sleep (attempts themselves are not time-limited).
C6_NoAttemptAfterWindow ==
    /\ pc = "sp_attempt" => elapsed < RetryWindow
    /\ (pc = "sp_return" /\ env = "unbound") => elapsed >= RetryWindow
    /\ elapsed < RetryWindow + Max(AttemptTicks) + SleepTicks

\* C6 witness: the loop ended more than 10 seconds after its start.
C6_LoopEndedLate == pc = "sp_return" /\ elapsed > RetryWindow

\* expose_local_services has run in this session.
Exposed ==
    /\ args.method # "container"
    /\ pc \in {"c_socks", "sp_start", "sp_loop", "sp_attempt", "sp_sleep",
               "sp_return", "go_mount", "go_mount_volumes", "go_mount_reg",
               "go_run"}

Count(s, x) == Cardinality({i \in 1..Len(s) : s[i] = x})

\* C10: after expose_local_services with n mappings the one reverse-forward
\* ssh invocation carries exactly n "-R" specs in mapping order and is in the
\* process group; with no mapping there is no such invocation and no "-R",
\* the advisory is printed exactly when stderr is a terminal, and the call
\* returns.
C10_ExposeLocalServices ==
    /\ [](Exposed =>
            /\ Len(sshR) = 2 * Len(args.expose)
            /\ \A i \in 1..Len(args.expose) :
                 /\ sshR[2 * i - 1].kind = "-R"
                 /\ sshR[2 * i] = [kind |-> "spec",
                                   remote |-> args.expose[i][2],
                                   local |-> args.expose[i][1]]
            /\ Count(spawned, "ssh-R") = IF args.expose = <<>> THEN 0 ELSE 1
            /\ pending = None => Count(processes, "ssh-R") = Count(spawned, "ssh-R")
            /\ ("advisory" \in Range(stderr)) = (args.tty /\ args.expose = <<>>))
    /\ []("ssh-R" \in Range(spawned) \/ "advisory" \in Range(stderr)
            => args.method # "container")
    /\ [][(At("c_expose") /\ args.method # "container" /\ args.expose = <<>>
           /\ signals' = signals)
            => (pc' = "c_socks" /\ UNCHANGED procs)]_vars

\* C10 witness: two mappings were exposed on one ssh invocation that is in
\* the process group.
C10_TwoMappingsExposed ==
    /\ Exposed
    /\ Len(args.expose) = 2
    /\ "ssh-R" \in Range(processes)

\* Some exposed remote port is below 1024.
Privileged == \E i \in 1..Len(args.expose) : args.expose[i][2] < 1024

\* C11: with an exposed remote port below 1024 and kubectl command "oc",
\* main stops with a configuration error at the needs-root step, before the
\* Runner exists, with nothing registered for teardown and no helper
\* spawned; otherwise that step does not stop main, and needs_root is true
\* exactly when some exposed remote port is below 1024.
C11_PrivilegedPortsOnOpenShift ==
    /\ []((Privileged /\ args.kubectl = "oc") =>
            /\ pc \in {"install_sigterm", "install_sighup", "analyze_kube",
                       "needs_root", "atexit", "exited", "killed"}
            /\ registry = <<>>
            /\ spawned = <<>>
            /\ args.needs_root = "unset")
    /\ [](args.needs_root # "unset" =>
            args.needs_root = IF Privileged THEN "true" ELSE "false")
    /\ [][(At("needs_root") /\ signals' = signals) =>
            IF Privileged /\ args.kubectl = "oc"
            THEN pc' = "atexit" /\ exitCode' = 1 /\ cause' = "error"
            ELSE pc' = "runner" /\ args'.needs_root # "unset"]_vars

\* C11 witness: main stopped at the needs-root step for remote port 80 on
\* "oc", and the process has ended.
C11_AbortedOnOpenShift ==
    /\ pc = "exited"
    /\ Privileged
    /\ args.kubectl = "oc"
    /\ cause = "error"
    /\ handlers = {"SIGTERM", "SIGHUP"}

\* The bridge discovery of connect (container method on Linux) raises.
BridgeErrorStep == At("c_iface") /\ pc' = "atexit" /\ signals' = signals

\* C12 as stated: when the bridge configuration error is raised no helper
\* process has been spawned and no deployment has been created or swapped.
C12_BridgeErrorBeforeMutation ==
    [][BridgeErrorStep => spawned = <<>> /\ deployed = None]_vars

\* C12: the bridge discovery runs only for the container method on Linux,
\* inside connect: the log tail and the port-forward have been spawned and
\* are in the process group, whose termination is registered, and any
\* deployment was already created or swapped; its error is fatal (exit
\* status 1), spawns nothing more (no relay, no ssh forward) and leaves the
\* cluster as it was.
C12_BridgeErrorAfterForward ==
    /\ [](pc = "c_iface" =>
            /\ args.method = "container" /\ args.platform = "linux"
            /\ spawned = <<"logs", "port-forward">>
            /\ "killall" \in Range(registry)
            /\ Range(processes) \subseteq Range(spawned)
            /\ ~waited)
    /\ [][BridgeErrorStep =>
            /\ processes = spawned
            /\ exitCode' = 1 /\ cause' = "error"
            /\ exitIdx' = Len(registry)
            /\ spawned' = spawned /\ processes' = processes
            /\ deployed' = deployed /\ registry' = registry]_vars
    /\ []((pc \in {"atexit", "exited"} /\ cause = "error"
           /\ args.method = "container" /\ args.platform = "linux"
           /\ spawned = <<"logs", "port-forward">>) =>
            /\ exitCode = 1
            /\ sshR = <<>> /\ ~exposeCalled /\ socksPort = None)

\* C12 witness: a container session on Linux that had created a deployment
\* ended with an error after exactly the log tail and the port-forward were
\* spawned, and both were terminated at teardown.
C12_BridgeErrorAfterDeployment ==
    /\ pc = "exited"
    /\ args.method = "container" /\ args.platform = "linux"
    /\ cause = "error" /\ exitCode = 1
    /\ deployed = "new"
    /\ spawned = <<"logs", "port-forward">>
    /\ terminated = <<"port-forward", "logs">>

\* The positions of main() before go() is entered.
PrecheckPcs ==
    {"install_sigterm", "install_sighup", "analyze_kube", "needs_root",
     "runner", "local_vm", "check_kube", "check_ssh", "require"}

\* Every check this configuration has to pass.
RequiredChecks == {"kube", "ssh"} \cup Range(RequiredCommands)

\* Nothing was created: no deployment, helper process, alias or mount, and
\* no process group.
NothingMutated ==
    /\ deployed = None
    /\ spawned = <<>> /\ processes = <<>> /\ pending = None
    /\ ~alias
    /\ mountDir = None
    /\ Range(registry) \subseteq {"span_end"}

\* C13: go() (and so start_proxy) is entered only after the cluster check,
\* the ssh check and every required-command check (torsocks; sshfs when
\* mounting; conntrack for vpn-tcp on Linux) have passed; as long as one of
\* them has not passed nothing is created; and a failing check ends the run
\* with exit status 1.
C13_ActiveOnlyAfterPrechecks ==
    /\ []((Live /\ pc \notin PrecheckPcs) => passed = RequiredChecks)
    /\ [](passed # RequiredChecks => NothingMutated)
    /\ [](passed \subseteq RequiredChecks)
    /\ [][(pc \in {"check_kube", "check_ssh", "require"}
           /\ pc' = "atexit" /\ signals' = signals) =>
            /\ exitCode' = 1 /\ cause' = "error"
            /\ passed' # RequiredChecks
            /\ NothingMutated]_vars
    /\ []((pc \in {"atexit", "exited"} /\ cause = "error"
           /\ passed # RequiredChecks) => exitCode = 1)

\* C13 witness: a run that asked for a mount ended with exit status 1
\* because sshfs is missing, after the cluster, ssh and torsocks checks had
\* passed.
C13_AbortedForMissingSshfs ==
    /\ pc = "exited"
    /\ args.mount # "false"
    /\ passed = {"kube", "ssh", "torsocks"}
    /\ cause = "error" /\ exitCode = 1
    /\ NothingMutated

\* Helper g depends on helper h: g is a forwarding ssh or the relay and h
\* the port-forward, or h is the log tail.
DependsOn(g, h) == HelperRank(g) > HelperRank(h) /\ HelperRank(h) <= 2

\* C14: when the termination of connect's process group has run, terminate
\* was called on every handle of the group exactly once, in exactly the
\* reverse of the append order, so that every forwarding ssh and the relay
\* come before the port-forward and the port-forward before the log tail;
\* this also when terminating some handle failed, and the teardown then
\* goes on to the remaining actions.
C14_TerminateInReverseOrder ==
    /\ []("killall" \in Range(completed) =>
            /\ terminated = Reverse(processes)
            /\ \A i, j \in 1..Len(terminated) :
                 DependsOn(terminated[i], terminated[j]) => i < j)
    /\ [](terminated # <<>> => "killall" \in Range(completed))
    /\ [](termFailed => "killall" \in Range(completed))
    /\ []((pc = "exited" /\ termFailed) => "span_end" \in Range(invoked))
    /\ [][(running = "killall" /\ signals' = signals) =>
            /\ "killall" \in Range(completed')
            /\ Len(terminated') = Len(processes)]_vars

\* C14 witness: an inject-tcp session with an exposed port ended; terminate
\* was called on the SOCKS forward, the reverse forward, the port-forward
\* and the log tail in that order, one of the calls failed, and the span
\* was still closed afterwards.
C14_FourTerminatedDespiteFailure ==
    /\ pc = "exited"
    /\ processes = <<"logs", "port-forward", "ssh-R", "ssh-L">>
    /\ terminated = <<"ssh-L", "ssh-R", "port-forward", "logs">>
    /\ termFailed
    /\ "span_end" \in Range(completed)

\* C15 as stated: the loopback alias is never left behind, whatever happens
\* after the "add alias" command succeeded: when the process has ended the
\* alias is gone, and teardown starts with the removal registered whenever
\* the alias exists.
C15_AliasNeverLeftBehind ==
    /\ [](pc = "exited" => ~alias)
    /\ []((pc = "atexit" /\ alias) => "alias_remove" \in Range(registry))

\* C16 as stated: the mount directory go() created is never left behind:
\* when the process has ended the directory is gone, and teardown starts
\* with its cleanup registered whenever the directory exists.
C16_MountDirNeverLeftBehind ==
    /\ [](pc = "exited" => mountDir \notin {"created", "mounted"})
    /\ []((pc = "atexit" /\ mountDir \in {"created", "mounted"}) =>
            "mount_cleanup" \in Range(registry))

\* The positions of the control thread after connect has returned.
AfterConnect ==
    {"sp_start", "sp_loop", "sp_attempt", "sp_sleep", "sp_return", "go_mount",
     "go_mount_volumes", "go_mount_reg", "go_run"}

\* The positions of connect's bridge setup.
BridgePcs == {"c_iface", "c_alias_add", "c_alias_reg", "c_socat"}

\* C17: in connect the bridge setup and its relay happen exactly for the
\* container method; expose_local_services is called exactly for the other
\* methods; the SOCKS forward ssh is spawned exactly for inject-tcp; and a
\* SOCKS port has been allocated whenever connect has returned, whatever the
\* method.
C17_MethodGating ==
    /\ (\/ pc \in BridgePcs
        \/ "socat" \in Range(spawned)
        \/ alias
        \/ "alias_remove" \in Range(registry)) => args.method = "container"
    /\ (pc \in AfterConnect /\ args.method = "container") =>
            "socat" \in Range(processes)
    /\ exposeCalled => args.method # "container"
    /\ "ssh-R" \in Range(spawned) => exposeCalled
    /\ (pc \in AfterConnect \cup {"c_socks"} /\ args.method # "container") =>
            exposeCalled
    /\ "ssh-L" \in Range(spawned) => args.method = "inject-tcp"
    /\ (pc \in AfterConnect /\ args.method = "inject-tcp") =>
            "ssh-L" \in Range(spawned)
    /\ pc \in AfterConnect => socksPort = "allocated"
    /\ socksPort = "allocated" => ~(Live /\ pc \notin AfterConnect)

\* C17 witness: a vpn-tcp session reached the launcher with its mapping
\* exposed and a SOCKS port allocated, and with neither a relay nor a SOCKS
\* forward spawned.
C17_VpnSessionWithSocksPort ==
    /\ pc = "go_run"
    /\ args.method = "vpn-tcp"
    /\ exposeCalled /\ sshR # <<>>
    /\ socksPort = "allocated"
    /\ spawned = <<"logs", "port-forward", "ssh-R">>

\* C18: in the retry loop a CalledProcessError is the only failure of an
\* attempt that is retried: after it the loop sleeps and, while the window
\* is open, tries again; a successful attempt binds env and ends the loop at
\* once, and start_proxy returns only with that result; any other failure
\* ends the run with an error and no further attempt.
C18_OnlyCommandErrorsRetried ==
    /\ [][(At("sp_attempt") /\ signals' = signals) =>
            CASE lastAttempt' = "ok" ->
                   pc' = "sp_return" /\ env' = "bound"
              [] lastAttempt' = "CalledProcessError" ->
                   pc' = "sp_sleep" /\ env' = "unbound"
              [] lastAttempt' = "other" ->
                   /\ pc' = "atexit" /\ exitCode' = 1 /\ cause' = "error"
                   /\ env' = "unbound"]_vars
    /\ [][(At("sp_sleep") /\ signals' = signals) =>
            pc' = "sp_loop" /\ lastAttempt = "CalledProcessError"]_vars
    /\ [][(At("sp_loop") /\ signals' = signals) =>
            pc' = IF WindowOpen(elapsed) THEN "sp_attempt" ELSE "sp_return"]_vars
    /\ [](pc \in {"sp_loop", "sp_attempt", "sp_sleep"} =>
            env = "unbound" /\ lastAttempt \in {None, "CalledProcessError"})
    /\ [](env = "bound" <=> lastAttempt = "ok")
    /\ [](pc \in {"go_mount", "go_mount_volumes", "go_mount_reg", "go_run"} =>
            env = "bound")
    /\ [](lastAttempt = "other" => pc \in {"atexit", "exited"})

\* C18 witness: the second attempt succeeded after the first one failed with
\* a command error and the loop slept, and start_proxy is about to return
\* its result.
C18_SecondAttemptSucceeded ==
    /\ pc = "sp_return"
    /\ lastAttempt = "ok" /\ env = "bound"
    /\ elapsed = ShortAttempt + SleepTicks + ShortAttempt

\* C19 as stated: once connect has spawned a helper, the termination of the
\* helpers is registered, and when the process has ended every spawned
\* helper has been terminated, however the session ended.
C19_NoHelperOutlivesSession ==
    /\ spawned # <<>> => "killall" \in Range(registry)
    /\ pc = "exited" => Range(spawned) \subseteq Range(terminated)

\* C20 as stated: in the mapping get_env_variables returns,
\* TELEPRESENCE_POD is the pod name and TELEPRESENCE_CONTAINER the container
\* name of remote_info, whatever the remote dump defines.
C20_IdentityFromRemoteInfo ==
    (pc = "env_done" /\ result.ok) =>
        /\ DictHas(result.map, <<"TELEPRESENCE_POD">>)
        /\ DictGet(result.map, <<"TELEPRESENCE_POD">>) = PodName
        /\ DictHas(result.map, <<"TELEPRESENCE_CONTAINER">>)
        /\ DictGet(result.map, <<"TELEPRESENCE_CONTAINER">>) = ContainerName

\* C21 as stated: a SIGTERM or SIGHUP delivered while teardown is running
\* skips no registered teardown action, cuts none short and runs none
\* twice: when the process has ended every registered action has run to
\* completion exactly once, last registered first.
C21_TeardownSurvivesSignal ==
    pc = "exited" => completed = Reverse(registry)

====
